---- MODULE Spec2Model ----
(***************************************************************************)
(* Model of the payment gateway's orchestration core: the Cloud Function   *)
(* handlers (tokenizeCardDirect, createTokenizationSession,                *)
(* completeTokenization, processPayment), the three provider adapters'     *)
(* tokenization and payment paths, the lazy provider factory, and the      *)
(* Firestore collections payment_cards, tokenization_sessions, payments.   *)
(*                                                                         *)
(* A request is a process that moves through the awaits of its handler.    *)
(* Steps that touch the card collection are kept apart (new-card write,    *)
(* other-card query, batch commit), so that overlapping requests           *)
(* interleave exactly where the code awaits the store.  The document store *)
(* is reliable: a write fails only where Firestore defines it to fail      *)
(* (update of a missing document), except in the specification that lets   *)
(* the batch commit fail.  Vendor calls may fail at will.                   *)
(* Redirect callbacks are the vendor's own payload for the session named   *)
(* in the request.                                                         *)
(***************************************************************************)
EXTENDS Integers, Sequences, FiniteSets, TLC

\* Bounds of the model.
MaxCards == 2
MaxSessions == 1
MaxPayments == 1

Users == {"u1", "u2"}
Providers == {"stripe", "transbank", "mercadopago"}
\* Concurrent invocations of the Cloud Functions.
Procs == {"r1", "r2"}

VARIABLES
  cards,      \* payment_cards: card_id (index) -> [user, is_default, token]
  sessions,   \* tokenization_sessions: document key -> document (or NoSession)
  vendor,     \* vendor-side redirect sessions: session_id (index) -> metadata
  payments,   \* payments: payment_id -> [user, status, err]
  genCount,   \* payment ids generated so far by generateId("payment")
  providers,  \* PaymentProviderFactory.providers: name -> cached adapter (or NoAdapter)
  configs,    \* PaymentProviderFactory.configs: name -> "none" | "user" | "partial" | "default"
  call,       \* per invocation: the request, its position and its response
  env,        \* the clients and the deployment: [overlap, procs, users, provs,
              \* disabled], fixed per scenario
  reply       \* what the last direct call on PaymentProviderFactory returned

vars == <<cards, sessions, vendor, payments, genCount, providers, configs, call, env,
          reply>>

\* ---------------------------------------------------------------- values

NoId == <<"none", 0>>
CardId(n) == <<"card", n>>
\* paymentMethod.id / cardToken.id of a direct tokenization: fresh per call
DirectToken(n) == <<"pm", n>>
\* the vendor reference a redirect session resolves to (tbkUser, setup
\* intent's payment method, MercadoPago payment id): fixed per session
SessionToken(s) == <<"vs", s>>

RequestPaymentId == <<"req", 1>>
GeneratedPaymentId(n) == <<"gen", n>>
PaymentIds == {RequestPaymentId} \cup {GeneratedPaymentId(n) : n \in 1..MaxPayments}

NoPayment == [user |-> "-", status |-> "none", err |-> FALSE]

\* Keys of tokenization_sessions documents: the auto-id document the handler
\* adds for a direct tokenization (one per card written), the auto-id document
\* the handler adds for a redirect session, and the document the transbank
\* adapter stores under the session id itself.
DirectKey(n) == <<"direct", n>>
AutoKey(s) == <<"auto", s>>
AdapterKey(s) == <<"tbk", s>>
DocKeys == {DirectKey(n) : n \in 1..MaxCards}
             \cup {AutoKey(s) : s \in 1..MaxSessions}
             \cup {AdapterKey(s) : s \in 1..MaxSessions}

NoSession == [session_id |-> 0, user |-> "-", provider |-> "-", status |-> "none",
              token_id |-> NoId, err |-> FALSE, sad |-> FALSE, has_expires_at |-> FALSE]

TerminalSessionStatus == {"completed", "failed", "expired"}

\* The state of one invocation.  Only what the rest of the handler reads, or
\* what the response tells the caller, is kept.
IdleCall == [op |-> "none", pc |-> "idle", user |-> "-", caller |-> "-", prov |-> "-",
             sad |-> FALSE, sid |-> 0, doc |-> NoId, card |-> 0, others |-> {},
             token |-> NoId, pid |-> NoId, pidGiven |-> FALSE, valid |-> FALSE,
             pending |-> FALSE, repeat |-> FALSE, raised |-> "-",
             vstatus |-> "-", code |-> "-", cardOk |-> FALSE, late |-> FALSE,
             timedOut |-> FALSE]

\* ---------------------------------------------------------------- registry

\* A stored config is "user" (enabled, with the processor's credentials),
\* "partial" (enabled, without them: no secretKey / accessToken / commerceCode
\* and apiKey) or "default" (the {provider, method, enabled} entry getProvider
\* stores for the test profile); "none": no entry.
ConfigKinds == {"none", "user", "partial", "default"}

\* An adapter, by the credentials its initialize configured: "config" (the
\* config's own), "test" (the public test profile), "sdk" (the SDK's
\* integration defaults).
NoAdapter == [cred |-> "none"]

\* config/test-credentials.ts: only transbank publishes test credentials
HasDefaultTestCredentials(name) == name = "transbank"

\* this.providers.get(name) is set
Cached(name) == providers[name] # NoAdapter

\* an initialize that puts stripe and mercadopago on the test constants of
\* config/test-credentials.ts when their credential is missing
InitializeTestFallback(name, cfg) ==
  IF name = "transbank"
  THEN IF cfg = "none" THEN [cred |-> "test"]
       ELSE IF cfg = "user" THEN [cred |-> "config"]
       ELSE [cred |-> "sdk"]
  ELSE IF cfg = "user" THEN [cred |-> "config"] ELSE [cred |-> "test"]

\* provider.initialize(config) for the config kind cfg ("none": the empty
\* config {}): the adapter it leaves, NoAdapter when it throws MISSING_CONFIG.
\* stripe and mercadopago need secretKey / accessToken.  transbank takes the
\* fields of a non-empty config and the test profile for an empty one, then
\* fills every missing credential from the SDK's integration defaults.
Initialize(name, cfg) ==
  IF name = "transbank"
  THEN IF cfg = "none" THEN [cred |-> "test"]
       ELSE IF cfg = "user" THEN [cred |-> "config"]
       ELSE [cred |-> "sdk"]
  ELSE IF cfg = "user" THEN [cred |-> "config"] ELSE NoAdapter

\* factory.getProvider succeeds: cached, or constructible from the user
\* config, or from the public test profile
GetProviderOk(name) ==
  \/ Cached(name)
  \/ /\ configs[name] # "none" \/ HasDefaultTestCredentials(name)
     /\ Initialize(name, configs[name]) # NoAdapter

\* the adapter cache after a getProvider that constructs on every call
ProvidersAfterGetFresh(name) ==
  IF GetProviderOk(name)
  THEN [providers EXCEPT ![name] = Initialize(name, configs[name])]
  ELSE providers

\* the adapter cache after getProvider(name)
ProvidersAfterGet(name) ==
  IF GetProviderOk(name) /\ ~Cached(name)
  THEN [providers EXCEPT ![name] = Initialize(name, configs[name])]
  ELSE providers

\* the config map after a getProvider that stores the default entry before
\* it looks for a test profile
ConfigsAfterGetEager(name) ==
  IF ~Cached(name) /\ configs[name] = "none"
  THEN [configs EXCEPT ![name] = "default"]
  ELSE configs

\* the config map after getProvider(name): a default entry is stored when the
\* test profile was used
ConfigsAfterGet(name) ==
  IF ~Cached(name) /\ configs[name] = "none" /\ HasDefaultTestCredentials(name)
  THEN [configs EXCEPT ![name] = "default"]
  ELSE configs

\* ---------------------------------------------------------------- card store

\* request.set_as_default?.toString() || "false"
BoolToString(b) == IF b THEN "true" ELSE "false"
\* metadata.set_as_default === "true"
StringIsTrue(s) == s = "true"

\* a set that stores every new card as the default one
WriteCardAsDefault(cs, user, isDefault, token) ==
  Append(cs, [user |-> user, is_default |-> TRUE, token |-> token])

\* payment_cards.doc(cardId).set(cardData)
WriteCard(cs, user, isDefault, token) ==
  Append(cs, [user |-> user, is_default |-> isDefault, token |-> token])

\* the query of other cards, finding none
OtherCardsNone(cs, user, cardId) == {}

\* where("user_id", "==", user).where("card_id", "!=", cardId)
OtherCards(cs, user, cardId) ==
  {c \in DOMAIN cs : cs[c].user = user /\ c # cardId}

\* a batch of set(doc.ref, {is_default: false}): every queried doc is replaced
UnsetDefaultBySet(cs, docs) ==
  [c \in DOMAIN cs |-> IF c \in docs
                       THEN [user |-> "-", is_default |-> FALSE, token |-> NoId]
                       ELSE cs[c]]

\* batch.update(doc.ref, {is_default: false}) for every queried doc; commit
UnsetDefault(cs, docs) ==
  [c \in DOMAIN cs |-> IF c \in docs THEN [cs[c] EXCEPT !.is_default = FALSE] ELSE cs[c]]

DefaultCards(u) == {c \in DOMAIN cards : cards[c].user = u /\ cards[c].is_default}

\* ---------------------------------------------------------------- scheduling

\* An invocation may start when invocations may overlap, or no other one is
\* in flight or unanswered.
CanStart(p) ==
  /\ p \in env.procs
  /\ call[p].pc = "idle"
  /\ env.overlap \/ \A q \in Procs : call[q].pc = "idle"

\* a handler whose catch lets the registry's error through: the invocation
\* ends without a response
RespondUnlessRegistryError(p, c, code) ==
  [call EXCEPT ![p] = [c EXCEPT !.pc = IF code = "PROVIDER_NOT_FOUND"
                                       THEN "crashed" ELSE "done",
                                !.code = IF code = "PROVIDER_NOT_FOUND" THEN "-" ELSE code,
                                !.others = {}]]

\* res.status(...).json(response): the invocation has its response
Respond(p, c, code) ==
  [call EXCEPT ![p] = [c EXCEPT !.pc = "done", !.code = code, !.others = {}]]

\* ---------------------------------------------------------------- tokenizeCardDirect

\* utils: the Luhn sum of digits[1..i], taken from the right; isEven tells
\* whether digits[i] is one of the doubled digits
RECURSIVE LuhnSum(_, _, _)
LuhnSum(digits, i, isEven) ==
  IF i = 0 THEN 0
  ELSE LET doubled == IF 2 * digits[i] > 9 THEN 2 * digits[i] - 9 ELSE 2 * digits[i]
       IN (IF isEven THEN doubled ELSE digits[i]) + LuhnSum(digits, i - 1, ~isEven)

\* utils.validateCardNumber: 13 to 19 digits whose Luhn sum is a multiple of 10
ValidateCardNumber(digits) ==
  /\ Len(digits) >= 13
  /\ Len(digits) <= 19
  /\ LuhnSum(digits, Len(digits), FALSE) % 10 = 0

\* new Date(): the month in which the requests arrive
Now == [year |-> 2026, month |-> 11]

\* utils.validateExpirationDate: a month 1..12 that is not before the current
\* month; a year below 100 is taken as 2000 + year
ValidateExpirationDate(month, year) ==
  LET fullYear == IF year < 100 THEN 2000 + year ELSE year
  IN /\ month >= 1
     /\ month <= 12
     /\ fullYear >= Now.year
     /\ ~(fullYear = Now.year /\ month < Now.month)

\* the card of a request is one a card validation would let through
CardPassesValidation(card) ==
  /\ ValidateCardNumber(card.number)
  /\ ValidateExpirationDate(card.month, card.year)

\* an adapter set in which every adapter tokenizes directly
TokenizeDirectSupportedByAll(prov) == prov \in Providers

\* adapter.tokenizeDirect exists for the processor: TransbankProvider's throws
\* METHOD_NOT_SUPPORTED
TokenizeDirectSupported(prov) == prov # "transbank"

\* Handler up to and including the adapter's new-card write.
TokenizeCardDirect(p, authOk, user, prov, sad, fieldsOk, card, vendorOk) ==
  LET c0 == [IdleCall EXCEPT !.op = "tokenize"]
      c1 == [c0 EXCEPT !.user = user, !.sad = sad, !.valid = TRUE, !.prov = prov,
                       !.cardOk = CardPassesValidation(card)]
  IN
  /\ CanStart(p)
  /\ UNCHANGED <<sessions, vendor, payments, genCount, env, reply>>
  /\ IF ~authOk THEN
       /\ call' = Respond(p, c0, "UNAUTHORIZED")
       /\ UNCHANGED <<cards, providers, configs>>
     ELSE IF ~fieldsOk THEN
       /\ call' = Respond(p, c0, "VALIDATION_ERROR")
       /\ UNCHANGED <<cards, providers, configs>>
     ELSE IF ~GetProviderOk(prov) THEN
       /\ call' = Respond(p, c1, "PROVIDER_NOT_FOUND")
       /\ UNCHANGED <<cards, providers, configs>>
     ELSE
       /\ providers' = ProvidersAfterGet(prov)
       /\ configs' = ConfigsAfterGet(prov)
       /\ IF ~TokenizeDirectSupported(prov) THEN
            /\ call' = Respond(p, [c1 EXCEPT !.raised = "adapter"], "METHOD_NOT_SUPPORTED")
            /\ UNCHANGED cards
          ELSE IF ~vendorOk THEN
            /\ call' = Respond(p, [c1 EXCEPT !.raised = "vendor"], "TOKENIZATION_FAILED")
            /\ UNCHANGED cards
          ELSE
            /\ Len(cards) < MaxCards
            /\ cards' = WriteCard(cards, user, sad, DirectToken(Len(cards) + 1))
            /\ call' = [call EXCEPT ![p] =
                 [c1 EXCEPT !.prov = prov, !.card = Len(cards) + 1,
                            !.token = DirectToken(Len(cards) + 1),
                            !.pc = IF sad THEN "query" ELSE "finish"]]

\* Adapter: query the user's other cards (set_as_default only).
QueryOtherCards(p) ==
  /\ call[p].pc = "query"
  /\ call' = [call EXCEPT ![p].others = OtherCards(cards, call[p].user, call[p].card),
                          ![p].pc = "commit"]
  /\ UNCHANGED <<cards, sessions, vendor, payments, genCount, providers, configs, env, reply>>

\* Adapter: commit the batch that unsets is_default on the queried cards.
CommitUnset(p) ==
  /\ call[p].pc = "commit"
  /\ cards' = UnsetDefault(cards, call[p].others)
  /\ call' = [call EXCEPT ![p].pc = "finish"]
  /\ UNCHANGED <<sessions, vendor, payments, genCount, providers, configs, env, reply>>

\* tokenization_sessions.add({... type: 'direct', status: 'completed'})
DirectSessionDoc(user, prov, token) ==
  [session_id |-> 0, user |-> user, provider |-> prov, status |-> "completed",
   token_id |-> token, err |-> FALSE, sad |-> FALSE, has_expires_at |-> FALSE]

\* Handler after the adapter returned: record the tokenization, respond.
FinishTokenizeDirect(p) ==
  /\ call[p].pc = "finish"
  /\ call[p].op = "tokenize"
  /\ sessions' = [sessions EXCEPT ![DirectKey(call[p].card)] =
                    DirectSessionDoc(call[p].user, call[p].prov, call[p].token)]
  /\ call' = Respond(p, call[p], "OK")
  /\ UNCHANGED <<cards, vendor, payments, genCount, providers, configs, env, reply>>

\* ---------------------------------------------------------------- createTokenizationSession

\* The whole handler: the adapter opens the vendor session (transbank also
\* stores its own session document under the session id), then the handler
\* adds its own session document.
CreateTokenizationSession(p, authOk, user, prov, sad, fieldsOk, vendorOk) ==
  LET c0 == [IdleCall EXCEPT !.op = "create"]
      c1 == [c0 EXCEPT !.user = user, !.sad = sad, !.valid = TRUE]
      s == Len(vendor) + 1
      adapterDoc == [session_id |-> s, user |-> user, provider |-> "transbank",
                     status |-> "pending", token_id |-> NoId, err |-> FALSE,
                     sad |-> sad, has_expires_at |-> TRUE]
      handlerDoc == [session_id |-> s, user |-> user, provider |-> prov,
                     status |-> "pending", token_id |-> NoId, err |-> FALSE,
                     sad |-> FALSE, has_expires_at |-> FALSE]
  IN
  /\ CanStart(p)
  /\ UNCHANGED <<cards, payments, genCount, env, reply>>
  /\ IF ~authOk THEN
       /\ call' = Respond(p, c0, "UNAUTHORIZED")
       /\ UNCHANGED <<sessions, vendor, providers, configs>>
     ELSE IF ~fieldsOk THEN
       /\ call' = Respond(p, c0, "VALIDATION_ERROR")
       /\ UNCHANGED <<sessions, vendor, providers, configs>>
     ELSE IF ~GetProviderOk(prov) THEN
       /\ call' = Respond(p, c1, "PROVIDER_NOT_FOUND")
       /\ UNCHANGED <<sessions, vendor, providers, configs>>
     ELSE
       /\ providers' = ProvidersAfterGet(prov)
       /\ configs' = ConfigsAfterGet(prov)
       /\ IF ~vendorOk THEN
            /\ call' = Respond(p, [c1 EXCEPT !.raised = "vendor"], "SESSION_CREATION_FAILED")
            /\ UNCHANGED <<sessions, vendor>>
          ELSE
            /\ Len(vendor) < MaxSessions
            /\ vendor' = Append(vendor, [provider |-> prov, user |-> user,
                                         sad |-> BoolToString(sad)])
            /\ sessions' = [k \in DocKeys |->
                 IF k = AdapterKey(s) /\ prov = "transbank" THEN adapterDoc
                 ELSE IF k = AutoKey(s) THEN handlerDoc
                 ELSE sessions[k]]
            /\ call' = Respond(p, [c1 EXCEPT !.sid = s], "OK")

\* ---------------------------------------------------------------- completeTokenization

\* where("session_id", "==", sid)
SessionDocs(ss, sid) == {k \in DocKeys : ss[k].status # "none" /\ ss[k].session_id = sid}

\* doc.update({status: "failed", error_message}); fails on a missing document
MarkFailed(ss, k) ==
  IF ss[k].status = "none" THEN ss
  ELSE [ss EXCEPT ![k].status = "failed", ![k].err = TRUE]

\* doc.update({status: "completed", token_id})
MarkCompleted(ss, k, token) ==
  IF ss[k].status = "none" THEN ss
  ELSE [ss EXCEPT ![k].status = "completed", ![k].token_id = token]

\* What the adapter of prov learns about session sid before it writes the
\* card: whether it goes on, and for whom and with which default flag.
\* transbank reads its own session document and requires it to be pending;
\* stripe retrieves the checkout session from the vendor, which knows only
\* its own; mercadopago looks up the payment the callback names and never
\* reads the session id.
AdapterSessionOk(prov, sid, vendorOk) ==
  IF prov = "transbank"
  THEN sessions[AdapterKey(sid)].status = "pending" /\ vendorOk
  ELSE IF prov = "stripe"
  THEN sid \in DOMAIN vendor /\ vendor[sid].provider = prov /\ vendorOk
  ELSE sid \in DOMAIN vendor /\ vendorOk

\* what made the adapter raise: its own check of the stored session
\* (SESSION_NOT_FOUND, SESSION_ALREADY_PROCESSED), or the vendor's answer
AdapterSessionError(prov, sid) ==
  IF prov = "transbank" /\ sessions[AdapterKey(sid)].status # "pending"
  THEN "adapter" ELSE "vendor"

AdapterSessionUser(prov, sid) ==
  IF prov = "transbank" THEN sessions[AdapterKey(sid)].user ELSE vendor[sid].user

AdapterSessionDefault(prov, sid) ==
  IF prov = "transbank" THEN sessions[AdapterKey(sid)].sad
  ELSE StringIsTrue(vendor[sid].sad)

\* an ownership test every caller passes
CallerOwnsAny(ss, d, caller) == d \in DocKeys

\* session?.user_id === user.uid
CallerOwns(ss, d, caller) == ss[d].user = caller

\* Handler up to and including the adapter's new-card write.
\* late: the request arrives after the session's expires_at, which no code
\* reads; timeout: a vendor that refuses does so by timing out.
CompleteTokenization(p, caller, sid, prov, fieldsOk, late, vendorOk, timeout) ==
  LET c0 == [IdleCall EXCEPT !.op = "complete"]
      found == SessionDocs(sessions, sid)
  IN
  /\ CanStart(p)
  /\ UNCHANGED <<vendor, payments, genCount, env, reply>>
  /\ IF ~fieldsOk THEN
       /\ call' = Respond(p, c0, "VALIDATION_ERROR")
       /\ UNCHANGED <<cards, sessions, providers, configs>>
     ELSE IF found = {} THEN
       /\ call' = Respond(p, [c0 EXCEPT !.sid = sid, !.caller = caller], "NOT_FOUND")
       /\ UNCHANGED <<cards, sessions, providers, configs>>
     ELSE \E d \in found :
       LET c1 == [c0 EXCEPT !.sid = sid, !.doc = d, !.user = sessions[d].user,
                            !.caller = caller,
                            !.late = late,
                            !.prov = prov,
                            !.valid = TRUE,
                            !.sad = StringIsTrue(vendor[sid].sad),
                            !.pending = \A k \in found : sessions[k].status = "pending",
                            !.repeat = \E k \in found : sessions[k].status = "completed"]
       IN
       IF ~CallerOwns(sessions, d, caller) THEN
         /\ call' = Respond(p, [c1 EXCEPT !.valid = FALSE], "UNAUTHORIZED")
         /\ UNCHANGED <<cards, sessions, providers, configs>>
       ELSE IF ~GetProviderOk(prov) THEN
         /\ call' = Respond(p, c1, "PROVIDER_NOT_FOUND")
         /\ UNCHANGED <<cards, sessions, providers, configs>>
       ELSE
         /\ providers' = ProvidersAfterGet(prov)
         /\ configs' = ConfigsAfterGet(prov)
         /\ IF ~AdapterSessionOk(prov, sid, vendorOk) THEN
              /\ call' = Respond(p, [c1 EXCEPT !.raised = AdapterSessionError(prov, sid),
                                               !.timedOut = /\ timeout
                                                            /\ AdapterSessionError(prov, sid) = "vendor"],
                                 "TOKENIZATION_COMPLETION_FAILED")
              /\ sessions' = IF prov = "transbank"
                             THEN MarkFailed(sessions, AdapterKey(sid))
                             ELSE sessions
              /\ UNCHANGED cards
            ELSE
              /\ Len(cards) < MaxCards
              /\ cards' = WriteCard(cards, AdapterSessionUser(prov, sid),
                                    AdapterSessionDefault(prov, sid), SessionToken(sid))
              /\ call' = [call EXCEPT ![p] =
                   [c1 EXCEPT !.card = Len(cards) + 1,
                              !.user = AdapterSessionUser(prov, sid),
                              !.token = SessionToken(sid),
                              !.pc = IF AdapterSessionDefault(prov, sid)
                                     THEN "query" ELSE "finish"]]
              /\ UNCHANGED sessions

\* After the card writes: transbank marks its session document completed;
\* the handler marks the document it looked up completed, and responds.
FinishCompleteTokenization(p) ==
  LET c == call[p]
      ss1 == IF c.prov = "transbank"
             THEN MarkCompleted(sessions, AdapterKey(c.sid), c.token)
             ELSE sessions
  IN
  /\ c.pc = "finish"
  /\ c.op = "complete"
  /\ sessions' = MarkCompleted(ss1, c.doc, c.token)
  /\ call' = Respond(p, c, "OK")
  /\ UNCHANGED <<cards, vendor, payments, genCount, providers, configs, env, reply>>

\* Adapter: batch.commit() rejects (the store is unavailable).  The adapter's
\* catch rethrows; transbank's also marks its session document failed.  The
\* card written before the batch stays.
CommitUnsetFails(p) ==
  LET c == call[p]
  IN
  /\ c.pc = "commit"
  /\ sessions' = IF c.op = "complete" /\ c.prov = "transbank"
                 THEN MarkFailed(sessions, AdapterKey(c.sid))
                 ELSE sessions
  /\ call' = Respond(p, [c EXCEPT !.raised = "store"],
                     IF c.op = "tokenize" THEN "TOKENIZATION_FAILED"
                     ELSE "TOKENIZATION_COMPLETION_FAILED")
  /\ UNCHANGED <<cards, vendor, payments, genCount, providers, configs, env, reply>>

\* ---------------------------------------------------------------- processPayment

\* catch: if (req.body.payment_id) payments.doc(payment_id).update({status:
\* "failed", error_message}).catch(() => {}): only a payment_id sent in the
\* request is updated, and only if the document exists.
MarkPaymentFailed(ps, pidGiven) ==
  IF pidGiven /\ ps[RequestPaymentId].status # "none"
  THEN [ps EXCEPT ![RequestPaymentId].status = "failed", ![RequestPaymentId].err = TRUE]
  ELSE ps

\* the payments write storing the record as pending
WritePaymentPending(ps, pid, user) ==
  [ps EXCEPT ![pid] = [user |-> user, status |-> "pending", err |-> FALSE]]

\* the payments write dropped
WritePaymentSkipped(ps, pid, user) == ps

\* payments.doc(paymentId).set({...data, status: "processing"})
WritePayment(ps, pid, user) ==
  [ps EXCEPT ![pid] = [user |-> user, status |-> "processing", err |-> FALSE]]

\* Handler up to and including the write of the Payment record.
ProcessPayment(p, authOk, user, prov, fieldsOk, tok, ses, pidGiven) ==
  LET c0 == [IdleCall EXCEPT !.op = "pay", !.pidGiven = pidGiven]
      pid == IF pidGiven THEN RequestPaymentId ELSE GeneratedPaymentId(genCount + 1)
  IN
  /\ CanStart(p)
  /\ UNCHANGED <<cards, sessions, vendor, providers, configs, env, reply>>
  /\ IF ~authOk THEN
       /\ call' = Respond(p, c0, "UNAUTHORIZED")
       /\ payments' = MarkPaymentFailed(payments, pidGiven)
       /\ UNCHANGED genCount
     ELSE IF ~fieldsOk \/ (tok = NoId /\ ses = 0) THEN
       /\ call' = Respond(p, [c0 EXCEPT !.user = user, !.token = tok, !.sid = ses],
                          "VALIDATION_ERROR")
       /\ payments' = MarkPaymentFailed(payments, pidGiven)
       /\ UNCHANGED genCount
     ELSE
       /\ pidGiven \/ genCount < MaxPayments
       /\ genCount' = IF pidGiven THEN genCount ELSE genCount + 1
       /\ payments' = WritePayment(payments, pid, user)
       /\ call' = [call EXCEPT ![p] =
            [c0 EXCEPT !.user = user, !.prov = prov, !.token = tok, !.sid = ses,
                       !.pid = pid, !.valid = TRUE, !.pc = "pay"]]

\* payment_cards.doc(id).get(): the card stored under this document id
CardByDocId(id) == {n \in DOMAIN cards : CardId(n) = id}

\* the payment_token query without the user_id clause
CardsByTokenAnyUser(token, user) ==
  {n \in DOMAIN cards : cards[n].token = token}

\* where("payment_token", "==", token).where("user_id", "==", user)
CardsByToken(token, user) ==
  {n \in DOMAIN cards : cards[n].token = token /\ cards[n].user = user}

\* where("session_id", "==", sid).where("status", "==", "completed")
CompletedSessionDocs(sid) ==
  {k \in SessionDocs(sessions, sid) : sessions[k].status = "completed"}

\* an ownership test every card passes
CardOwnedByAnyone(n, user) == n \in DOMAIN cards

\* paymentCard.user_id === data.user_id
CardOwnedBy(n, user) == cards[n].user = user

\* The cards the token_id / session_id of a request may resolve to (a limit(1)
\* query returns any one match), or the error the resolution ends in.
ResolveCard(user, tok, ses) ==
  IF tok # NoId THEN
    LET byId == CardByDocId(tok)
        found == IF byId # {} THEN byId ELSE CardsByToken(tok, user)
    IN IF found = {} THEN {[ok |-> FALSE, card |-> 0, code |-> "NOT_FOUND"]}
       ELSE {IF ~CardOwnedBy(n, user)
             THEN [ok |-> FALSE, card |-> n, code |-> "UNAUTHORIZED"]
             ELSE [ok |-> TRUE, card |-> n, code |-> "OK"] : n \in found}
  ELSE
    LET docs == CompletedSessionDocs(ses)
    IN IF docs = {} THEN {[ok |-> FALSE, card |-> 0, code |-> "NOT_FOUND"]}
       ELSE {IF sessions[k].user # user
             THEN [ok |-> FALSE, card |-> 0, code |-> "UNAUTHORIZED"]
             ELSE IF sessions[k].token_id = NoId
             THEN [ok |-> FALSE, card |-> 0, code |-> "INVALID_STATE"]
             ELSE IF CardByDocId(sessions[k].token_id) = {}
             THEN [ok |-> FALSE, card |-> 0, code |-> "NOT_FOUND"]
             ELSE [ok |-> TRUE, card |-> CHOOSE n \in CardByDocId(sessions[k].token_id) : TRUE,
                   code |-> "OK"] : k \in docs}

\* What adapter.processPayment may return ("throw": it raises PAYMENT_FAILED).
\* transbank reports completed or failed; stripe and mercadopago report the
\* normalized vendor status.
AdapterPaymentResults(prov) ==
  IF prov = "transbank" THEN {"throw", "completed", "failed"}
  ELSE {"throw", "completed", "failed", "processing", "pending", "cancelled"}

\* Handler after the record is written: resolve the card, dispatch to the
\* adapter, respond; on any error mark the payment failed first.
ExecutePayment(p, result) ==
  LET c == call[p]
  IN
  /\ c.pc = "pay"
  /\ UNCHANGED <<cards, sessions, vendor, genCount, env, reply>>
  /\ \E r \in ResolveCard(c.user, c.token, c.sid) :
       IF ~r.ok THEN
         /\ call' = Respond(p, c, r.code)
         /\ payments' = MarkPaymentFailed(payments, c.pidGiven)
         /\ UNCHANGED <<providers, configs>>
       ELSE IF ~GetProviderOk(c.prov) THEN
         /\ call' = Respond(p, c, "PROVIDER_NOT_FOUND")
         /\ payments' = MarkPaymentFailed(payments, c.pidGiven)
         /\ UNCHANGED <<providers, configs>>
       ELSE
         /\ providers' = ProvidersAfterGet(c.prov)
         /\ configs' = ConfigsAfterGet(c.prov)
         /\ result \in AdapterPaymentResults(c.prov)
         /\ IF result = "throw" THEN
              /\ call' = Respond(p, [c EXCEPT !.card = r.card, !.raised = "vendor"], "PAYMENT_FAILED")
              /\ payments' = MarkPaymentFailed(payments, c.pidGiven)
            ELSE
              /\ call' = Respond(p, [c EXCEPT !.card = r.card, !.vstatus = result], "OK")
              /\ UNCHANGED payments

\* ---------------------------------------------------------------- refundPayment

\* The whole handler.  The processor is the one stored with the payment, which
\* the payment records here do not keep: any processor may be the one.
\* asProfessional: the caller is the payment's professional_id.
RefundPayment(p, authOk, caller, pid, prov, fieldsOk, asProfessional, vendorOk) ==
  LET c0 == [IdleCall EXCEPT !.op = "refund"]
      c1 == [c0 EXCEPT !.caller = caller, !.pid = pid, !.prov = prov]
  IN
  /\ CanStart(p)
  /\ UNCHANGED <<cards, sessions, vendor, payments, genCount, env, reply>>
  /\ IF ~authOk THEN
       /\ call' = Respond(p, c0, "UNAUTHORIZED")
       /\ UNCHANGED <<providers, configs>>
     ELSE IF ~fieldsOk THEN
       /\ call' = Respond(p, c0, "VALIDATION_ERROR")
       /\ UNCHANGED <<providers, configs>>
     ELSE IF payments[pid].status = "none" THEN
       /\ call' = Respond(p, c1, "NOT_FOUND")
       /\ UNCHANGED <<providers, configs>>
     ELSE IF payments[pid].user # caller /\ ~asProfessional THEN
       /\ call' = Respond(p, c1, "UNAUTHORIZED")
       /\ UNCHANGED <<providers, configs>>
     ELSE IF ~GetProviderOk(prov) THEN
       /\ call' = Respond(p, [c1 EXCEPT !.valid = TRUE], "PROVIDER_NOT_FOUND")
       /\ UNCHANGED <<providers, configs>>
     ELSE
       /\ providers' = ProvidersAfterGet(prov)
       /\ configs' = ConfigsAfterGet(prov)
       /\ IF ~vendorOk
          THEN call' = Respond(p, [c1 EXCEPT !.valid = TRUE, !.raised = "vendor"],
                               "REFUND_FAILED")
          ELSE call' = Respond(p, [c1 EXCEPT !.valid = TRUE], "OK")

\* The response has been delivered; the invocation ends.
Return(p) ==
  /\ call[p].pc = "done"
  /\ call' = [call EXCEPT ![p] = IdleCall]
  /\ UNCHANGED <<cards, sessions, vendor, payments, genCount, providers, configs, env, reply>>

\* ---------------------------------------------------------------- PaymentProviderFactory

NoReply == [op |-> "none", name |-> "-", code |-> "-", adapter |-> NoAdapter,
            initialized |-> FALSE, available |-> FALSE, listed |-> {}, testMode |-> {},
            failed |-> {}, vendorStatus |-> "-", status |-> "-", config |-> "-",
            nth |-> 0, sigValid |-> FALSE, verified |-> FALSE, handled |-> "-",
            tick |-> FALSE]

\* the record of a new call: it keeps the log of the processors whose
\* construction has failed so far, and differs from the record of the call
\* before it
Answer == [NoReply EXCEPT !.failed = reply.failed, !.tick = ~reply.tick]

\* getProvider's try block: the error it raises for name, "-" when it
\* constructs the adapter.  MISSING_CONFIG comes from the factory (no config,
\* no test profile) or from the adapter's initialize.
ConstructionError(name) ==
  IF configs[name] # "none"
  THEN IF Initialize(name, configs[name]) = NoAdapter THEN "MISSING_CONFIG" ELSE "-"
  ELSE IF HasDefaultTestCredentials(name)
  THEN IF Initialize(name, "none") = NoAdapter THEN "MISSING_CONFIG" ELSE "-"
  ELSE "MISSING_CONFIG"

\* a catch that throws the error of the try block again unchanged
RewrapKeep(code) == IF code = "-" THEN "OK" ELSE code

\* getProvider's catch: whatever the try block raised is thrown again as
\* PROVIDER_NOT_FOUND
Rewrap(code) == IF code = "-" THEN "OK" ELSE "PROVIDER_NOT_FOUND"

\* PaymentProviderFactory.initialize([config]): an enabled config is stored
\* under its processor, a disabled one is skipped.
FactoryInitialize(name, kind, enabled) ==
  /\ configs' = IF enabled THEN [configs EXCEPT ![name] = kind] ELSE configs
  /\ reply' = [Answer EXCEPT !.op = "initialize", !.name = name]
  /\ UNCHANGED <<cards, sessions, vendor, payments, genCount, providers, call, env>>

\* PaymentProviderFactory.getProvider(name), called directly.
GetProvider(name) ==
  /\ providers' = ProvidersAfterGet(name)
  /\ configs' = ConfigsAfterGet(name)
  /\ reply' = [Answer EXCEPT
       !.op = "get", !.name = name,
       !.code = IF Cached(name) THEN "OK" ELSE Rewrap(ConstructionError(name)),
       !.adapter = ProvidersAfterGet(name)[name],
       !.initialized = ~Cached(name)
                       /\ (configs[name] # "none" \/ HasDefaultTestCredentials(name)),
       !.failed = IF GetProviderOk(name) THEN reply.failed ELSE reply.failed \cup {name}]
  /\ UNCHANGED <<cards, sessions, vendor, payments, genCount, call, env>>

\* an availability test that looks at the adapter cache and the test profiles
\* only
IsProviderAvailableNoConfig(name) ==
  \/ Cached(name)
  \/ HasDefaultTestCredentials(name)

\* PaymentProviderFactory.isProviderAvailable(name)
IsProviderAvailable(name) ==
  \/ Cached(name)
  \/ configs[name] # "none"
  \/ HasDefaultTestCredentials(name)

\* isProviderAvailable(name), called directly.
AskAvailable(name) ==
  /\ reply' = [Answer EXCEPT !.op = "available", !.name = name,
                              !.available = IsProviderAvailable(name)]
  /\ UNCHANGED <<cards, sessions, vendor, payments, genCount, providers, configs,
                 call, env>>

\* PaymentProviderFactory.getAvailableProviders()
AvailableProviders == {n \in Providers : IsProviderAvailable(n)}

\* PaymentProviderFactory.getConfig(name) of an available processor: the
\* stored entry, else the default entry of the test profile (not stored)
GetConfig(name) == IF configs[name] # "none" THEN configs[name] ELSE "default"

\* whether a config of kind cfg for processor name carries the field: each
\* processor's config has its own credential only (stripe: secretKey,
\* mercadopago: accessToken, transbank: apiKey)
HasField(name, cfg, field) ==
  /\ cfg = "user"
  /\ \/ name = "stripe" /\ field = "secretKey"
     \/ name = "mercadopago" /\ field = "accessToken"
     \/ name = "transbank" /\ field = "apiKey"

\* isTestMode: !config.secretKey || !config.accessToken || !config.apiKey
IsTestMode(name, cfg) ==
  \/ ~HasField(name, cfg, "secretKey")
  \/ ~HasField(name, cfg, "accessToken")
  \/ ~HasField(name, cfg, "apiKey")

\* the getAvailableProviders function (provider discovery)
GetAvailableProviders ==
  /\ reply' = [Answer EXCEPT
       !.op = "discover",
       !.listed = AvailableProviders,
       !.testMode = {n \in AvailableProviders : IsTestMode(n, GetConfig(n))}]
  /\ UNCHANGED <<cards, sessions, vendor, payments, genCount, providers, configs,
                 call, env>>

\* ---------------------------------------------------------------- adapters

\* PaymentStatus, the statuses shared by all processors
PaymentStatuses == {"pending", "processing", "completed", "failed", "cancelled", "refunded"}

\* StripeProvider.mapStripeStatus
MapStripeStatus(status) ==
  CASE status = "succeeded" -> "completed"
    [] status = "processing" -> "processing"
    [] status \in {"requires_payment_method", "requires_confirmation", "requires_action"}
         -> "pending"
    [] status = "canceled" -> "cancelled"
    [] status = "payment_failed" -> "failed"
    [] OTHER -> "pending"

\* MercadoPagoProvider.mapMercadoPagoStatus
MapMercadoPagoStatus(status) ==
  CASE status = "approved" -> "completed"
    [] status \in {"pending", "in_process"} -> "processing"
    [] status = "authorized" -> "pending"
    [] status = "rejected" -> "failed"
    [] status = "cancelled" -> "cancelled"
    [] status \in {"refunded", "charged_back"} -> "refunded"
    [] OTHER -> "pending"

\* a transbank normalizer that takes what it does not know for a failure
MapTransbankStatusStrict(status) ==
  CASE status = "AUTHORIZED" -> "completed"
    [] status = "FAILED" -> "failed"
    [] status = "NULLIFIED" -> "cancelled"
    [] status = "REVERSED" -> "refunded"
    [] OTHER -> "failed"

\* TransbankProvider.mapTransbankStatus
MapTransbankStatus(status) ==
  CASE status = "AUTHORIZED" -> "completed"
    [] status = "FAILED" -> "failed"
    [] status = "NULLIFIED" -> "cancelled"
    [] status = "REVERSED" -> "refunded"
    [] OTHER -> "pending"

\* the status normalizer of the adapter called name
MapStatus(name, status) ==
  IF name = "stripe" THEN MapStripeStatus(status)
  ELSE IF name = "mercadopago" THEN MapMercadoPagoStatus(status)
  ELSE MapTransbankStatus(status)

\* Vendor statuses an adapter may be handed: the ones some normalizer names,
\* further statuses of the vendors' vocabularies, and values of no vocabulary.
VendorStatuses ==
  {"succeeded", "processing", "requires_payment_method", "requires_confirmation",
   "requires_action", "canceled", "payment_failed", "requires_capture",
   "approved", "pending", "in_process", "authorized", "rejected", "cancelled",
   "refunded", "charged_back", "in_mediation",
   "AUTHORIZED", "FAILED", "NULLIFIED", "REVERSED", "CAPTURED", "INITIALIZED",
   "authorized_typo", ""}

\* The cached adapter called name normalizes a vendor status (in
\* processPayment, refundPayment or handleWebhook).
NormalizeStatus(name, status) ==
  /\ Cached(name)
  /\ reply' = [Answer EXCEPT !.op = "normalize", !.name = name,
                              !.vendorStatus = status,
                              !.status = MapStatus(name, status)]
  /\ UNCHANGED <<cards, sessions, vendor, payments, genCount, providers, configs,
                 call, env>>

\* an initialize that refuses the configuration the adapter already runs on
InitializeOnRefusing(adapter, name, cfg) ==
  IF Initialize(name, cfg) = NoAdapter
  THEN [adapter |-> adapter, code |-> "MISSING_CONFIG"]
  ELSE IF Initialize(name, cfg) = adapter
  THEN [adapter |-> adapter, code |-> "ALREADY_INITIALIZED"]
  ELSE [adapter |-> Initialize(name, cfg), code |-> "OK"]

\* initialize(config) called on an adapter that exists: it throws
\* MISSING_CONFIG before it assigns anything, or it overwrites every field
\* from the config (and the defaults); it reads no field it has not just set.
InitializeOn(adapter, name, cfg) ==
  IF Initialize(name, cfg) = NoAdapter
  THEN [adapter |-> adapter, code |-> "MISSING_CONFIG"]
  ELSE [adapter |-> Initialize(name, cfg), code |-> "OK"]

\* A caller holding the cached adapter called name calls initialize(config)
\* on it; nth counts the calls in a row with the same config (up to two).
AdapterInitialize(name, cfg) ==
  /\ Cached(name)
  /\ providers' = [providers EXCEPT ![name] = InitializeOn(providers[name], name, cfg).adapter]
  /\ reply' = [Answer EXCEPT
       !.op = "adapterInitialize", !.name = name, !.config = cfg,
       !.code = InitializeOn(providers[name], name, cfg).code,
       !.adapter = InitializeOn(providers[name], name, cfg).adapter,
       !.nth = IF reply.op = "adapterInitialize" /\ reply.name = name /\ reply.config = cfg
               THEN 2 ELSE 1]
  /\ UNCHANGED <<cards, sessions, vendor, payments, genCount, configs, call, env>>

\* ---------------------------------------------------------------- webhook

\* What a webhook request may name in its path: the processors, a name that
\* is no processor, and nothing.
WebhookPaths == Providers \cup {"paypal", ""}

\* The events a vendor (or anybody else) may post: the payment they refer to
\* and what they say about it.  For mercadopago the status is the one the
\* vendor reports when the adapter looks the payment up.
WebhookEvents ==
  [kind : {"succeeded", "failed", "other"},
   pid : PaymentIds,
   vendorStatus : {"in_mediation"}]

\* payments.doc(id).update({status}); fails on a missing document, which the
\* adapters' handleWebhook catches
UpdatePaymentStatus(ps, pid, status) ==
  IF ps[pid].status = "none" THEN ps
  ELSE [ps EXCEPT ![pid].status = status]

\* adapter.handleWebhook(event): the payments collection it leaves
HandleWebhook(name, event) ==
  IF name = "stripe"
  THEN IF event.kind = "succeeded" THEN UpdatePaymentStatus(payments, event.pid, "completed")
       ELSE IF event.kind = "failed" THEN UpdatePaymentStatus(payments, event.pid, "failed")
       ELSE payments
  ELSE IF name = "mercadopago"
  THEN IF event.kind # "other"
       THEN UpdatePaymentStatus(payments, event.pid, MapMercadoPagoStatus(event.vendorStatus))
       ELSE payments
  ELSE payments

\* a router that verifies no signature
SignatureRejectedNever(name, sigValid) == name \notin WebhookPaths

\* provider === "stripe" && !paymentProvider.verifyWebhook(payload, signature)
SignatureRejected(name, sigValid) == name = "stripe" /\ ~sigValid

\* the webhook function: the response status, and the adapter whose
\* handleWebhook ran
Webhook(path, sigValid, event) ==
  LET r0 == [Answer EXCEPT !.op = "webhook", !.name = path, !.sigValid = sigValid]
  IN
  /\ UNCHANGED <<cards, sessions, vendor, genCount, call, env>>
  /\ IF path \notin Providers THEN
       /\ reply' = [r0 EXCEPT !.code = "400"]
       /\ UNCHANGED <<payments, providers, configs>>
     ELSE IF ~IsProviderAvailable(path) THEN
       /\ reply' = [r0 EXCEPT !.code = "400"]
       /\ UNCHANGED <<payments, providers, configs>>
     ELSE IF ~GetProviderOk(path) THEN
       /\ reply' = [r0 EXCEPT !.code = "500",
                              !.failed = reply.failed \cup {path}]
       /\ UNCHANGED <<payments, providers, configs>>
     ELSE
       /\ providers' = ProvidersAfterGet(path)
       /\ configs' = ConfigsAfterGet(path)
       /\ IF SignatureRejected(path, sigValid) THEN
            /\ reply' = [r0 EXCEPT !.code = "401"]
            /\ UNCHANGED payments
          ELSE
            /\ payments' = HandleWebhook(path, event)
            /\ reply' = [r0 EXCEPT !.code = "200", !.handled = path,
                                   !.verified = (path = "stripe" /\ sigValid)]

\* ---------------------------------------------------------------- specification

\* factory.initialize(configs): a deployment configures every processor, or
\* none (the adapters then run on the public test profiles only).
Deployments == {[n \in Providers |-> "user"], [n \in Providers |-> "none"]}

InitStore ==
  /\ cards = <<>>
  /\ sessions = [k \in DocKeys |-> NoSession]
  /\ vendor = <<>>
  /\ payments = [i \in PaymentIds |-> NoPayment]
  /\ genCount = 0
  /\ providers = [n \in Providers |-> NoAdapter]
  /\ configs \in Deployments
  /\ call = [p \in Procs |-> IdleCall]
  /\ reply = NoReply

\* Overlapping invocations on behalf of one user.
InitRace ==
  /\ InitStore
  /\ env = [overlap |-> TRUE, procs |-> Procs, users |-> {"u1"},
            provs |-> {"stripe", "transbank"}, disabled |-> {}]

\* Invocations one after the other, any user, any processor.
InitSeq ==
  /\ InitStore
  /\ env = [overlap |-> FALSE, procs |-> {"r1"}, users |-> Users, provs |-> Providers,
            disabled |-> {}]

\* Invocations one after the other, one user, any processor.
InitOne ==
  /\ InitStore
  /\ env = [overlap |-> FALSE, procs |-> {"r1"}, users |-> {"u1"}, provs |-> Providers,
            disabled |-> {}]

\* Invocations one after the other, one user, a processor that tokenizes
\* directly and one that tokenizes by redirect only.
InitTwoProcessors ==
  /\ InitStore
  /\ env = [overlap |-> FALSE, procs |-> {"r1"}, users |-> {"u1"},
            provs |-> {"stripe", "transbank"}, disabled |-> {}]

\* Invocations one after the other, two users, the processors that read the
\* session's owner from the vendor.
InitTwoPayers ==
  /\ InitStore
  /\ env = [overlap |-> FALSE, procs |-> {"r1"}, users |-> Users,
            provs |-> {"stripe", "mercadopago"}, disabled |-> {}]

\* A deployment whose factory.initialize(configs) was given, for some of the
\* processors, a config with enabled = false and for the others none:
\* initialize skips a disabled config, so no config is stored.
InitDisabled ==
  /\ InitStore
  /\ configs = [n \in Providers |-> "none"]
  /\ \E d \in (SUBSET Providers) \ {{}} :
       env = [overlap |-> FALSE, procs |-> {"r1"}, users |-> {"u1"}, provs |-> Providers,
              disabled |-> d]

Init == InitRace \/ InitSeq

\* A client sends a request to one of the functions.
\* card numbers: a 16-digit number with a correct check digit, the same
\* number with a wrong check digit, and a number that is too short
CardNumbers ==
  { <<4, 2, 4, 2, 4, 2, 4, 2, 4, 2, 4, 2, 4, 2, 4, 2>>,
    <<4, 2, 4, 2, 4, 2, 4, 2, 4, 2, 4, 2, 4, 2, 4, 1>>,
    <<4, 2, 4, 2, 4, 2, 4, 2, 4, 2, 4, 2>> }

\* expiry dates: in the future (four- and two-digit year), the current month,
\* earlier this year, a past year
ExpiryDates ==
  { [month |-> 12, year |-> 2030], [month |-> 12, year |-> 30],
    [month |-> Now.month, year |-> Now.year],
    [month |-> 1, year |-> Now.year], [month |-> 12, year |-> 2020] }

RequestCards ==
  {[number |-> n, month |-> e.month, year |-> e.year] : n \in CardNumbers, e \in ExpiryDates}

\* a card with a correct number that has not expired
WellFormedCard ==
  [number |-> <<4, 2, 4, 2, 4, 2, 4, 2, 4, 2, 4, 2, 4, 2, 4, 2>>, month |-> 12, year |-> 2030]

Tokenize(p) ==
  \E authOk \in BOOLEAN, user \in env.users, prov \in env.provs,
     sad \in BOOLEAN, fieldsOk \in BOOLEAN, vendorOk \in BOOLEAN :
    TokenizeCardDirect(p, authOk, user, prov, sad, fieldsOk, WellFormedCard, vendorOk)

\* A client sends a direct tokenization with any card; the vendor refuses a
\* card whose number or expiry date is wrong.
TokenizeAnyCard(p) ==
  \E authOk \in BOOLEAN, user \in env.users, prov \in env.provs,
     sad \in BOOLEAN, fieldsOk \in BOOLEAN, card \in RequestCards,
     vendorOk \in BOOLEAN :
    /\ vendorOk => CardPassesValidation(card)
    /\ TokenizeCardDirect(p, authOk, user, prov, sad, fieldsOk, card, vendorOk)

CreateSession(p) ==
  \E authOk \in BOOLEAN, user \in env.users, prov \in env.provs,
     sad \in BOOLEAN, fieldsOk \in BOOLEAN, vendorOk \in BOOLEAN :
    CreateTokenizationSession(p, authOk, user, prov, sad, fieldsOk, vendorOk)

Complete(p) ==
  \E caller \in env.users, sid \in 1..MaxSessions, prov \in env.provs,
     fieldsOk \in BOOLEAN, vendorOk \in BOOLEAN :
    CompleteTokenization(p, caller, sid, prov, fieldsOk, FALSE, vendorOk, FALSE)

\* A completion arrives at any time, before or after the session's
\* expires_at; the vendor may accept, refuse, or time out.
CompleteAnyTime(p) ==
  \E caller \in env.users, sid \in 1..MaxSessions, prov \in env.provs,
     fieldsOk \in BOOLEAN, late \in BOOLEAN, vendorOk \in BOOLEAN, timeout \in BOOLEAN :
    /\ timeout => ~vendorOk
    /\ CompleteTokenization(p, caller, sid, prov, fieldsOk, late, vendorOk, timeout)

Pay(p) ==
  \E authOk \in BOOLEAN, user \in env.users, prov \in env.provs,
     fieldsOk \in BOOLEAN, pidGiven \in BOOLEAN,
     tok \in {NoId} \cup {CardId(n) : n \in DOMAIN cards}
                   \cup {cards[n].token : n \in DOMAIN cards},
     ses \in 0..Len(vendor) :
    ProcessPayment(p, authOk, user, prov, fieldsOk, tok, ses, pidGiven)

Execute(p) ==
  \E result \in AdapterPaymentResults("stripe") : ExecutePayment(p, result)

\* Tokenization only.
NextTok ==
  \E p \in Procs :
    \/ Tokenize(p)
    \/ QueryOtherCards(p)
    \/ CommitUnset(p)
    \/ FinishTokenizeDirect(p)
    \/ CreateSession(p)
    \/ Complete(p)
    \/ FinishCompleteTokenization(p)
    \/ Return(p)

\* Payments on directly tokenized cards.
NextPay ==
  \E p \in Procs :
    \/ Tokenize(p)
    \/ QueryOtherCards(p)
    \/ CommitUnset(p)
    \/ FinishTokenizeDirect(p)
    \/ Pay(p)
    \/ Execute(p)
    \/ Return(p)

\* Tokenization on a store whose batch commit may fail.
NextStoreFault ==
  \E p \in Procs :
    \/ Tokenize(p)
    \/ QueryOtherCards(p)
    \/ CommitUnset(p)
    \/ CommitUnsetFails(p)
    \/ FinishTokenizeDirect(p)
    \/ CreateSession(p)
    \/ Complete(p)
    \/ FinishCompleteTokenization(p)
    \/ Return(p)

\* Direct tokenizations with any card.
NextCard ==
  \E p \in Procs :
    \/ TokenizeAnyCard(p)
    \/ QueryOtherCards(p)
    \/ CommitUnset(p)
    \/ FinishTokenizeDirect(p)
    \/ Return(p)

Refund(p) ==
  \E authOk \in BOOLEAN, caller \in env.users, pid \in PaymentIds, prov \in env.provs,
     fieldsOk \in BOOLEAN, asProfessional \in BOOLEAN, vendorOk \in BOOLEAN :
    RefundPayment(p, authOk, caller, pid, prov, fieldsOk, asProfessional, vendorOk)

\* Every exposed operation.
NextEnvelope ==
  \E p \in Procs :
    \/ Tokenize(p)
    \/ QueryOtherCards(p)
    \/ CommitUnset(p)
    \/ FinishTokenizeDirect(p)
    \/ CreateSession(p)
    \/ Complete(p)
    \/ FinishCompleteTokenization(p)
    \/ Pay(p)
    \/ Execute(p)
    \/ Refund(p)
    \/ Return(p)

\* The runtime resumes a handler once the store or the vendor has answered
\* the call it awaits.
HandlersResume ==
  \A p \in Procs :
    /\ WF_vars(QueryOtherCards(p))
    /\ WF_vars(CommitUnset(p))
    /\ WF_vars(FinishTokenizeDirect(p))
    /\ WF_vars(FinishCompleteTokenization(p))
    /\ WF_vars(Execute(p))

\* Redirect sessions completed before or after they expire.
NextExpiry ==
  \E p \in Procs :
    \/ CreateSession(p)
    \/ CompleteAnyTime(p)
    \/ QueryOtherCards(p)
    \/ CommitUnset(p)
    \/ FinishCompleteTokenization(p)
    \/ Return(p)

\* Payments on the cards of redirect sessions.
NextSessionPay ==
  \E p \in Procs :
    \/ CreateSession(p)
    \/ Complete(p)
    \/ QueryOtherCards(p)
    \/ CommitUnset(p)
    \/ FinishCompleteTokenization(p)
    \/ Pay(p)
    \/ Execute(p)
    \/ Return(p)

\* A configuration kind a caller may hand to PaymentProviderFactory.initialize.
SuppliedConfigs == {"user", "partial"}

StoreConfig ==
  \E name \in Providers, kind \in SuppliedConfigs, enabled \in BOOLEAN :
    FactoryInitialize(name, kind, enabled)

Get == \E name \in Providers : GetProvider(name)

Available == \E name \in Providers : AskAvailable(name)

Normalize == \E name \in Providers, status \in VendorStatuses : NormalizeStatus(name, status)

Reinitialize == \E name \in Providers, cfg \in ConfigKinds : AdapterInitialize(name, cfg)

\* The adapters the registry hands out, used directly.
NextAdapter ==
  \/ StoreConfig
  \/ Get
  \/ Normalize
  \/ Reinitialize

\* The registry alone.
NextRegistry ==
  \/ StoreConfig
  \/ Get
  \/ Available
  \/ GetAvailableProviders

\* The registry after the deployment's configs are loaded.
NextLoaded ==
  \/ Get
  \/ Available
  \/ GetAvailableProviders

\* A client pays by stripe naming the id of a first card, whether or not that
\* card exists.
PayAnyToken(p) ==
  \E authOk \in BOOLEAN, user \in env.users, fieldsOk \in BOOLEAN, pidGiven \in BOOLEAN :
    ProcessPayment(p, authOk, user, "stripe", fieldsOk, CardId(1), 0, pidGiven)

ReceiveWebhook ==
  \E path \in WebhookPaths, sigValid \in BOOLEAN, event \in WebhookEvents :
    Webhook(path, sigValid, event)

\* The deployment's stripe config is replaced by one without credentials.
StoreStripeConfig ==
  \E enabled \in BOOLEAN : FactoryInitialize("stripe", "partial", enabled)

\* Payments and the webhooks about them.
NextWebhook ==
  \/ StoreStripeConfig
  \/ ReceiveWebhook
  \/ \E p \in Procs :
       \/ PayAnyToken(p)
       \/ Execute(p)
       \/ Return(p)

\* Stripe reports that the payment named in a request succeeded.
ReceivePaymentSucceeded ==
  Webhook("stripe", TRUE, [kind |-> "succeeded", pid |-> RequestPaymentId,
                           vendorStatus |-> "in_mediation"])

\* Every operation of the core: tokenization, completion, payment, refund,
\* webhook.
NextCore ==
  \/ ReceivePaymentSucceeded
  \/ \E p \in Procs :
       \/ Tokenize(p)
       \/ QueryOtherCards(p)
       \/ CommitUnset(p)
       \/ FinishTokenizeDirect(p)
       \/ CreateSession(p)
       \/ Complete(p)
       \/ FinishCompleteTokenization(p)
       \/ PayAnyToken(p)
       \/ Execute(p)
       \/ Refund(p)
       \/ Return(p)

Next ==
  \/ NextCore
  \/ NextStoreFault
  \/ NextRegistry
  \/ NextAdapter
  \/ NextWebhook
  \/ \E p \in Procs :
    \/ Tokenize(p)
    \/ QueryOtherCards(p)
    \/ CommitUnset(p)
    \/ FinishTokenizeDirect(p)
    \/ CreateSession(p)
    \/ Complete(p)
    \/ FinishCompleteTokenization(p)
    \/ Pay(p)
    \/ Execute(p)
    \/ Refund(p)
    \/ Return(p)

Spec == Init /\ [][Next]_vars

\* Tokenization requests one after the other.
SpecSeq == InitSeq /\ [][NextTok]_vars

\* Overlapping tokenization requests of one user.
SpecRace == InitRace /\ [][NextTok]_vars

\* Payment requests one after the other.
SpecPay == InitSeq /\ [][NextPay]_vars

\* Direct tokenizations of well-formed and malformed cards, one after the
\* other.
SpecCard == InitOne /\ [][NextCard]_vars

\* Redirect sessions of one user, completed at any time.
SpecExpiry == InitOne /\ [][NextExpiry]_vars

\* Requests to every exposed operation, one after the other, each handler
\* resumed after every await.
SpecEnvelope == InitTwoProcessors /\ [][NextEnvelope]_vars /\ HandlersResume

\* Payment requests of one user and webhook requests, in any order.
SpecWebhook == InitTwoProcessors /\ [][NextWebhook]_vars

\* Requests to every operation of the core and stripe's webhook, one after
\* the other.
SpecCore == InitTwoProcessors /\ [][NextCore]_vars

\* Payment requests of two users naming each other's cards and sessions, one
\* after the other.
SpecTwoPayers == InitTwoPayers /\ [][NextSessionPay]_vars

\* Tokenization requests of one user, one after the other, on a store whose
\* batch commit may fail.
SpecStoreFault == InitOne /\ [][NextStoreFault]_vars

\* Calls on the provider registry of a deployment that disabled processors.
SpecDisabled == InitDisabled /\ [][NextLoaded]_vars

\* Calls on the adapters the registry constructed.
SpecAdapter == InitOne /\ [][NextAdapter]_vars

\* Calls on the provider registry, in any order.
SpecRegistry == InitOne /\ [][NextRegistry]_vars

\* Payment requests of one user naming redirect sessions, one after the other.
SpecSessionPay == InitOne /\ [][NextSessionPay]_vars

\* ---------------------------------------------------------------- properties

\* An answered tokenization (direct, or completion of a redirect session) that
\* stored a card with set_as_default = true.
StoredDefaultCard(p) ==
  /\ call[p].pc = "done"
  /\ call[p].op \in {"tokenize", "complete"}
  /\ call[p].code = "OK"
  /\ call[p].sad

\* C1: when a user's tokenization calls run one at a time, after each call
\* that stores a card with set_as_default = true exactly one card of that user
\* is marked default, and it is the card that call created.
C1_SequentialDefault ==
  \A p \in Procs :
    StoredDefaultCard(p) => DefaultCards(call[p].user) = {call[p].card}

\* A second set_as_default card of the same user has been stored, for any of
\* the processors, after a first one that was default.
C1_Witness ==
  \E p \in Procs :
    /\ StoredDefaultCard(p)
    /\ call[p].card = 2
    /\ cards[1].user = call[p].user
    /\ sessions[DirectKey(1)].status = "completed"
    /\ ~cards[1].is_default

\* C2: in every reachable state, the intermediate states of a tokenization
\* and every interleaving of overlapping tokenizations included, each user
\* has at most one card marked default.
C2_AtMostOneDefault ==
  \A u \in Users : Cardinality(DefaultCards(u)) <= 1

\* C3: when two set_as_default tokenizations of the same user overlap, a
\* violation of the single-default rule is transient: once both have been
\* answered, exactly one card of the user is marked default.
C3_ConvergesToOneDefault ==
  \A p, q \in Procs :
    (/\ p # q
     /\ StoredDefaultCard(p)
     /\ StoredDefaultCard(q)
     /\ call[p].user = call[q].user)
    => Cardinality(DefaultCards(call[p].user)) = 1

\* C4: a tokenization session's status changes exactly once, from pending to
\* one of completed, failed or expired: no step changes the status of a
\* session document that has reached a terminal status.
C4_TerminalIsFinal ==
  [][\A k \in DocKeys :
       sessions[k].status \in TerminalSessionStatus
       => sessions'[k].status = sessions[k].status]_vars

\* An answered completion of session sid, requested by the session's owner
\* with the session's own processor.
CompletionAnswered(p) ==
  /\ call[p].pc = "done"
  /\ call[p].op = "complete"
  /\ call[p].valid
  /\ call[p].prov = vendor[call[p].sid].provider

\* C5: when completeTokenization is called twice in a row for the same
\* session_id, the first call succeeds and the second fails, and the caller
\* of the second is told SESSION_ALREADY_PROCESSED (the vendor answering the
\* second callback as it answered the first).
C5_SecondCompletionRejected ==
  \A p \in Procs :
    (CompletionAnswered(p) /\ call[p].repeat /\ call[p].raised # "vendor")
    => call[p].code = "SESSION_ALREADY_PROCESSED"

\* C6: for every processor, when the adapter raises while completing a
\* pending session, the session is stored as failed with an error message; it
\* is never left pending.
C6_FailedCompletionRecorded ==
  \A p \in Procs :
    (CompletionAnswered(p) /\ call[p].pending /\ call[p].raised # "-")
    => \E k \in SessionDocs(sessions, call[p].sid) :
         sessions[k].status = "failed" /\ sessions[k].err

\* An answered processPayment that named a token_id.
PaymentByTokenAnswered(p) ==
  /\ call[p].pc = "done"
  /\ call[p].op = "pay"
  /\ call[p].valid
  /\ call[p].token # NoId

\* the token_id is the card_id of a card of another user
NamesForeignCardId(p) ==
  \E n \in DOMAIN cards :
    call[p].token = CardId(n) /\ cards[n].user # call[p].user

\* the token_id is the vendor payment_token of a card of another user
NamesForeignPaymentToken(p) ==
  \E n \in DOMAIN cards :
    call[p].token = cards[n].token /\ cards[n].user # call[p].user

\* C7 (as stated): processPayment by user U with a token_id that is the
\* card_id or the vendor payment_token of a card owned by a different user
\* fails with UNAUTHORIZED.
C7_ForeignTokenUnauthorized ==
  \A p \in Procs :
    (PaymentByTokenAnswered(p) /\ (NamesForeignCardId(p) \/ NamesForeignPaymentToken(p)))
    => call[p].code = "UNAUTHORIZED"

\* C7 (amended): processPayment by user U fails with UNAUTHORIZED when token_id
\* is the card_id of a card owned by a different user, and with NOT_FOUND when
\* token_id is the vendor payment_token of a card owned by a different user
\* (the payment_token lookup only sees U's own cards).
C7_ForeignTokenRejected ==
  \A p \in Procs :
    PaymentByTokenAnswered(p)
    => /\ NamesForeignCardId(p) => call[p].code = "UNAUTHORIZED"
       /\ NamesForeignPaymentToken(p) => call[p].code = "NOT_FOUND"

\* A payment naming the payment_token of another user's card has been answered
\* NOT_FOUND, its Payment record written.
C7_Witness ==
  \E p \in Procs :
    /\ PaymentByTokenAnswered(p)
    /\ NamesForeignPaymentToken(p)
    /\ call[p].code = "NOT_FOUND"
    /\ payments[call[p].pid].status # "none"

\* An answered processPayment that had created its Payment record.
PaymentAttemptAnswered(p) ==
  /\ call[p].pc = "done"
  /\ call[p].op = "pay"
  /\ call[p].valid

\* C8: whenever a processPayment call fails after its Payment record was
\* created (adapter raised, card not found, ownership check failed), the
\* record is failed with error_message set when the error is returned, for a
\* payment_id sent by the caller and for a generated one alike.
C8_FailureRecorded ==
  \A p \in Procs :
    (PaymentAttemptAnswered(p) /\ call[p].code # "OK")
    => /\ payments[call[p].pid].status = "failed"
       /\ payments[call[p].pid].err

\* C9: when processPayment is called with a valid token_id and the adapter
\* reports the charge completed, the stored Payment record is completed by
\* the time the call returns.
C9_CompletedRecorded ==
  \A p \in Procs :
    (/\ PaymentAttemptAnswered(p)
     /\ call[p].token # NoId
     /\ call[p].code = "OK"
     /\ call[p].vstatus = "completed")
    => payments[call[p].pid].status = "completed"

PaymentRecordStatus ==
  {"processing", "completed", "failed", "cancelled", "refunded"}

\* C10 (as stated): after every processPayment call, whatever its outcome, a
\* Payment record of that attempt exists with status processing or a
\* terminal status.
C10_EveryCallRecorded ==
  \A p \in Procs :
    (call[p].pc = "done" /\ call[p].op = "pay")
    => /\ call[p].pid \in PaymentIds
       /\ payments[call[p].pid].status \in PaymentRecordStatus

\* C10 (amended): after every processPayment call that passed authentication
\* and validation, whatever its outcome afterwards (the vendor call raising
\* included), a Payment record of that attempt exists with status processing
\* or a terminal status.
C10_AcceptedCallRecorded ==
  \A p \in Procs :
    PaymentAttemptAnswered(p)
    => /\ call[p].pid \in PaymentIds
       /\ payments[call[p].pid].user = call[p].user
       /\ payments[call[p].pid].status \in PaymentRecordStatus

\* The vendor call raised, for a generated payment_id.
C10_Witness ==
  \E p \in Procs :
    /\ PaymentAttemptAnswered(p)
    /\ call[p].raised = "vendor"
    /\ ~call[p].pidGiven
    /\ payments[call[p].pid].status = "processing"

\* The step of invocation p in which adapter.processPayment runs: the card
\* was resolved, the adapter obtained, and the vendor answered or raised.
VendorCharged(p) ==
  /\ call[p].pc = "pay"
  /\ call'[p].pc = "done"
  /\ call'[p].code \in {"OK", "PAYMENT_FAILED"}

\* C11: in every execution of processPayment the vendor call happens only
\* after a Payment record with status processing has been written under the
\* call's payment_id; no vendor call precedes the creation of the record.
C11_RecordBeforeVendorCall ==
  [][\A p \in Procs :
       VendorCharged(p)
       => /\ call[p].pid \in PaymentIds
          /\ payments[call[p].pid].status = "processing"
          /\ payments[call[p].pid].user = call[p].user]_vars

\* A vendor call has raised on a payment whose id the caller supplied; the
\* record written before it is now failed.
C11_Witness ==
  \E p \in Procs :
    /\ PaymentAttemptAnswered(p)
    /\ call[p].code = "PAYMENT_FAILED"
    /\ call[p].pidGiven
    /\ call[p].card \in DOMAIN cards
    /\ payments[call[p].pid].status = "failed"

\* An answered processPayment that named a session_id and no token_id, and
\* whose processor has an adapter.
PaymentBySessionAnswered(p) ==
  /\ PaymentAttemptAnswered(p)
  /\ call[p].token = NoId
  /\ call[p].sid \in DOMAIN vendor
  /\ GetProviderOk(call[p].prov)

\* the session named by the request is completed and owned by the caller
NamesOwnCompletedSession(p) ==
  \E k \in CompletedSessionDocs(call[p].sid) : sessions[k].user = call[p].user

\* C12: processPayment given a session_id (and no token_id) of a completed
\* session owned by the caller resolves the card created by that session's
\* completion and dispatches the charge to the adapter with it; if the session
\* is not completed, no charge is dispatched.
C12_SessionPaymentCharged ==
  \A p \in Procs :
    PaymentBySessionAnswered(p)
    => /\ NamesOwnCompletedSession(p)
          => /\ call[p].code \in {"OK", "PAYMENT_FAILED"}
             /\ call[p].card \in DOMAIN cards
             /\ cards[call[p].card].token = SessionToken(call[p].sid)
       /\ CompletedSessionDocs(call[p].sid) = {}
          => call[p].code \notin {"OK", "PAYMENT_FAILED"}

\* An answered processPayment of an authenticated caller (the record of a
\* request rejected at authentication names no user).
AuthenticatedPaymentAnswered(p) ==
  /\ call[p].pc = "done"
  /\ call[p].op = "pay"
  /\ call[p].user \in Users

\* C13: processPayment requires exactly one of token_id and session_id: a
\* request carrying neither, and a request carrying both, is rejected with
\* VALIDATION_ERROR and no charge is dispatched.
C13_ExactlyOneReference ==
  \A p \in Procs :
    (/\ AuthenticatedPaymentAnswered(p)
     /\ (call[p].token = NoId) = (call[p].sid = 0))
    => /\ call[p].code = "VALIDATION_ERROR"
       /\ ~call[p].valid

\* The step is a direct getProvider(name) call with the given name.
GetStep(name) ==
  /\ reply' # reply
  /\ reply'.op = "get"
  /\ reply'.name = name

\* C14: for each processor name at most one adapter is ever cached: once
\* getProvider(name) has succeeded the cached adapter never changes, and every
\* later getProvider(name), in whatever order requests issue them, returns
\* that adapter without calling initialize again.
C14_CachedAdapterReused ==
  [][\A name \in Providers :
       Cached(name)
       => /\ providers'[name] = providers[name]
          /\ GetStep(name)
             => /\ reply'.code = "OK"
                /\ reply'.adapter = providers[name]
                /\ ~reply'.initialized]_vars

\* getProvider has returned the cached transbank adapter of the test profile
\* after a caller-supplied config was stored for transbank.
C14_Witness ==
  /\ reply.op = "get"
  /\ reply.name = "transbank"
  /\ reply.code = "OK"
  /\ ~reply.initialized
  /\ reply.adapter = [cred |-> "test"]
  /\ configs["transbank"] = "user"

\* C15: a getProvider(name) that fails leaves the adapter cache and the config
\* map as they were (no adapter, no record of the failure), and a getProvider
\* of a processor whose construction failed before succeeds, constructing the
\* adapter from the config, once a complete config is stored for it.
C15_FailedGetLeavesNoTrace ==
  [][\A name \in Providers :
       GetStep(name)
       => /\ reply'.code # "OK" => /\ providers' = providers
                                   /\ configs' = configs
                                   /\ ~Cached(name)
          /\ (name \in reply.failed /\ configs[name] = "user")
             => /\ reply'.code = "OK"
                /\ providers'[name] = [cred |-> "config"]
                /\ reply'.adapter = providers'[name]]_vars

C15_Witness ==
  /\ reply.op = "get" /\ reply.name = "stripe" /\ reply.code = "OK"
  /\ "stripe" \in reply.failed
  /\ reply.initialized
  /\ providers["stripe"] = [cred |-> "config"]

\* a processor without a public test profile (config/test-credentials.ts)
NoTestProfile == {"stripe", "mercadopago"}

\* getProvider(name) was called for a processor with no stored config and no
\* test profile
UnconfiguredGetStep(name) ==
  /\ name \in NoTestProfile
  /\ configs[name] = "none"
  /\ GetStep(name)

AvailableStep(name) ==
  /\ reply' # reply
  /\ reply'.op = "available"
  /\ reply'.name = name

\* C17: isProviderAvailable(name) answers true exactly when an adapter is
\* cached for name, or a config is stored for name, or name has a public test
\* profile (transbank only); the call leaves the adapter cache and the config
\* map unchanged, so it constructs nothing.
C17_AvailableWithoutConstructing ==
  [][\A name \in Providers :
       AvailableStep(name)
       => /\ reply'.available <=> \/ providers[name] # NoAdapter
                                  \/ configs[name] # "none"
                                  \/ name = "transbank"
          /\ providers' = providers
          /\ configs' = configs
          /\ ~reply'.initialized]_vars

C17_Witness ==
  /\ reply.op = "available" /\ reply.name = "stripe"
  /\ reply.available
  /\ providers["stripe"] = NoAdapter
  /\ configs["stripe"] \in SuppliedConfigs

\* C18: whatever registry operations run, an adapter cached for stripe or
\* mercadopago was never initialized with shared credentials (a public test
\* profile or SDK defaults): it carries the credentials of a stored config.
C18_NoSharedCredentials ==
  \A name \in {"stripe", "mercadopago"} :
    /\ providers[name].cred \notin {"test", "sdk"}
    /\ providers[name] # NoAdapter => providers[name].cred = "config"

C18_Witness ==
  /\ providers["stripe"].cred = "config"
  /\ providers["mercadopago"].cred = "config"
  /\ providers["transbank"].cred = "test"
  /\ {"stripe", "mercadopago"} \subseteq reply.failed

\* getProvider(name) constructed the adapter from a caller-supplied config
ConstructedFromSuppliedConfig(name) ==
  /\ GetStep(name)
  /\ configs[name] \in SuppliedConfigs
  /\ reply'.initialized
  /\ reply'.code = "OK"

\* C19: when getProvider(name) constructs the adapter of a processor for which
\* a caller-supplied config is stored, the adapter runs on that config's
\* credentials: none of them comes from the public test profile or from the
\* SDK's integration defaults.
C19_SuppliedConfigUsedExactly ==
  [][\A name \in Providers :
       ConstructedFromSuppliedConfig(name)
       => /\ providers'[name].cred = "config"
          /\ reply'.adapter.cred = "config"]_vars

\* provider discovery (getAvailableProviders) answered
DiscoveryStep ==
  /\ reply' # reply
  /\ reply'.op = "discover"

\* C20: provider discovery reports isTestMode = true for a listed processor
\* exactly when no caller-supplied config is stored for it (it is available
\* through the public test profile only), and isTestMode = false for a
\* processor configured with caller-supplied credentials.
C20_TestModeTellsTestFromReal ==
  [][DiscoveryStep
     => \A name \in reply'.listed :
          /\ name \in reply'.testMode <=> configs[name] \notin SuppliedConfigs
          /\ configs[name] = "user" => name \notin reply'.testMode]_vars

\* Invocation p has just been taken up as a direct tokenization that passed
\* authentication and field validation.
DirectTokenizationTaken(p) ==
  /\ call[p].pc = "idle"
  /\ call'[p].pc # "idle"
  /\ call'[p].op = "tokenize"
  /\ call'[p].valid

\* C21: a direct tokenization against transbank, whose only tokenization
\* method is redirect, is answered METHOD_NOT_SUPPORTED at once; it writes no
\* card and no tokenization session document.
C21_DirectOnRedirectOnly ==
  [][\A p \in Procs :
       (DirectTokenizationTaken(p) /\ call'[p].prov = "transbank")
       => /\ call'[p].pc = "done"
          /\ call'[p].code = "METHOD_NOT_SUPPORTED"
          /\ cards' = cards
          /\ sessions' = sessions]_vars

C21_Witness ==
  \E p \in Procs :
    /\ call[p].pc = "done"
    /\ call[p].op = "tokenize"
    /\ call[p].prov = "transbank"
    /\ call[p].code = "METHOD_NOT_SUPPORTED"
    /\ Len(cards) = 1
    /\ sessions[DirectKey(1)].status = "completed"

\* Invocation p has just been taken up as a completion naming a session id
\* (its required fields were present).
CompletionTaken(p) ==
  /\ call[p].pc = "idle"
  /\ call'[p].pc # "idle"
  /\ call'[p].op = "complete"
  /\ call'[p].sid # 0

\* the completion taken up by p was answered with code and touched nothing:
\* no adapter fetched or called, no card written, no session document changed
RejectedUntouched(p, code) ==
  /\ call'[p].pc = "done"
  /\ call'[p].code = code
  /\ call'[p].raised = "-"
  /\ providers' = providers
  /\ cards' = cards
  /\ sessions' = sessions
  /\ vendor' = vendor

\* C22: completeTokenization naming a session_id no session document carries
\* fails with NOT_FOUND; naming a session of another user than the caller it
\* fails with UNAUTHORIZED.  In both cases no adapter is invoked, no card is
\* written and no session document changes.
C22_UnknownOrForeignSession ==
  [][\A p \in Procs :
       CompletionTaken(p)
       => LET docs == {k \in DocKeys : /\ sessions[k].status # "none"
                                       /\ sessions[k].session_id = call'[p].sid}
          IN /\ docs = {} => RejectedUntouched(p, "NOT_FOUND")
             /\ (docs # {} /\ \A k \in docs : sessions[k].user # call'[p].caller)
                => RejectedUntouched(p, "UNAUTHORIZED")]_vars

C22_Witness ==
  \E p \in Procs :
    /\ call[p].pc = "done"
    /\ call[p].op = "complete"
    /\ call[p].code = "UNAUTHORIZED"
    /\ call[p].caller = "u2"
    /\ sessions[AutoKey(1)].user = "u1"
    /\ sessions[AutoKey(1)].status = "pending"
    /\ sessions[AdapterKey(1)].status = "pending"

\* a step of a direct tokenization call p, from its arrival to its response
DirectTokenizationStep(p) ==
  /\ call'[p] # call[p]
  /\ call'[p].op = "tokenize"

\* the tokenization session records in the store
SessionRecords == {k \in DocKeys : sessions[k].status # "none"}

\* C23: no step of a direct tokenization call, successful or not, adds a
\* tokenization session record: the set of session records is the same before
\* and after the call.
C23_DirectCreatesNoSession ==
  [][\A p \in Procs :
       DirectTokenizationStep(p)
       => /\ SessionRecords' = SessionRecords
          /\ sessions' = sessions]_vars

\* C24: a direct tokenization whose card number fails the Luhn check, or whose
\* expiry date is in the past, is rejected with VALIDATION_ERROR before the
\* adapter is called, and writes no card.
C24_CardValidatedBeforeAdapter ==
  [][\A p \in Procs :
       (DirectTokenizationTaken(p) /\ ~call'[p].cardOk)
       => /\ call'[p].pc = "done"
          /\ call'[p].code = "VALIDATION_ERROR"
          /\ call'[p].raised = "-"
          /\ cards' = cards]_vars

\* An answered completion of a pending session that arrived after the
\* session's expires_at, was passed to the session's adapter, and ended in a
\* vendor-side timeout.
LateCompletionTimedOut(p) ==
  /\ CompletionAnswered(p)
  /\ call[p].pending
  /\ call[p].late
  /\ call[p].timedOut

\* C25: when completeTokenization is called on a pending session whose
\* expires_at has passed, the adapter is still asked to complete it, and when
\* the adapter reports a vendor-side timeout the session is stored as expired.
C25_LateTimeoutMarksExpired ==
  \A p \in Procs :
    LateCompletionTimedOut(p)
    => \A k \in SessionDocs(sessions, call[p].sid) : sessions[k].status = "expired"

\* the vendor statuses the normalizer of the adapter called name names
RecognizedStatuses(name) ==
  IF name = "stripe"
  THEN {"succeeded", "processing", "requires_payment_method", "requires_confirmation",
        "requires_action", "canceled", "payment_failed"}
  ELSE IF name = "mercadopago"
  THEN {"approved", "pending", "in_process", "authorized", "rejected", "cancelled",
        "refunded", "charged_back"}
  ELSE {"AUTHORIZED", "FAILED", "NULLIFIED", "REVERSED"}

\* an adapter has just normalized a vendor status
NormalizeStep ==
  /\ reply' # reply
  /\ reply'.op = "normalize"

\* C26: every adapter's status normalizer answers every vendor status with one
\* of the six shared statuses, and answers a status it does not name with
\* pending (never completed, never failed).
C26_NormalizerTotal ==
  [][NormalizeStep
     => /\ reply'.status \in {"pending", "processing", "completed", "failed",
                              "cancelled", "refunded"}
        /\ reply'.vendorStatus \notin RecognizedStatuses(reply'.name)
           => reply'.status = "pending"]_vars

C26_Witness ==
  /\ reply.op = "normalize"
  /\ reply.name = "transbank"
  /\ reply.vendorStatus = "CAPTURED"
  /\ reply.status = "pending"

\* initialize(config) has just been called on an adapter for the second time
\* in a row with the same config
SecondInitializeStep ==
  /\ reply.op = "adapterInitialize"
  /\ reply.nth = 1
  /\ reply'.op = "adapterInitialize"
  /\ reply'.nth = 2

\* C27: for every adapter and every config, a second initialize(config) right
\* after a first one ends as the first did and leaves the adapter in the state
\* the first left it in; the adapter stays usable.
C27_InitializeIdempotent ==
  [][SecondInitializeStep
     => /\ reply'.code = reply.code
        /\ providers' = providers
        /\ reply'.adapter = reply.adapter
        /\ providers'[reply'.name] # NoAdapter]_vars

C27_Witness ==
  /\ reply.op = "adapterInitialize"
  /\ reply.nth = 2
  /\ reply.name = "transbank"
  /\ reply.config = "partial"
  /\ reply.code = "OK"
  /\ providers["transbank"] = [cred |-> "sdk"]
  /\ configs["transbank"] = "default"

\* the error codes the handlers and adapters answer with
ErrorCodes ==
  {"UNAUTHORIZED", "VALIDATION_ERROR", "NOT_FOUND", "INVALID_STATE",
   "PROVIDER_NOT_FOUND", "METHOD_NOT_SUPPORTED", "TOKENIZATION_FAILED",
   "SESSION_CREATION_FAILED", "TOKENIZATION_COMPLETION_FAILED", "PAYMENT_FAILED",
   "REFUND_FAILED", "INTERNAL_ERROR"}

\* invocation p has its response envelope: success, or an error with a code
Enveloped(p) ==
  /\ call[p].pc = "done"
  /\ call[p].code \in {"OK"} \cup ErrorCodes

WebhookStep ==
  /\ reply' # reply
  /\ reply'.op = "webhook"

\* the processor called name is known to the router and available: an adapter
\* is cached for it, a config is stored for it, or it has a test profile
KnownAndAvailable(name) ==
  /\ name \in {"stripe", "transbank", "mercadopago"}
  /\ \/ providers[name] # NoAdapter
     \/ configs[name] # "none"
     \/ name = "transbank"

SessionCreated(p) ==
  /\ call[p].pc = "done"
  /\ call[p].op = "create"
  /\ call[p].code = "OK"

\* C30: once createTokenizationSession has succeeded, exactly one session
\* record carries the returned session_id, now and after every later
\* operation, and it carries an expires_at; when the creation is answered the
\* record is pending.
C30_OneSessionRecord ==
  /\ \A sid \in 1..Len(vendor) :
       /\ Cardinality(SessionDocs(sessions, sid)) = 1
       /\ \A k \in SessionDocs(sessions, sid) : sessions[k].has_expires_at
  /\ \A p \in Procs :
       SessionCreated(p)
       => \A k \in SessionDocs(sessions, call[p].sid) : sessions[k].status = "pending"

\* C31: once a card is stored, every step of the core (tokenization,
\* completion, payment, refund, webhook) keeps it in the store with the same
\* owner and the same vendor token; only is_default may change.
C31_CardImmutable ==
  [][\A n \in DOMAIN cards :
       /\ n \in DOMAIN cards'
       /\ cards'[n].user = cards[n].user
       /\ cards'[n].token = cards[n].token]_vars

\* a tokenization with set_as_default has committed its batch on the user's
\* earlier cards, which are still stored with their owner and token
C31_Witness ==
  \E p \in Procs :
    /\ call[p].pc = "finish"
    /\ call[p].others # {}
    /\ \A n \in call[p].others :
         /\ ~cards[n].is_default
         /\ cards[n].user = call[p].user
         /\ cards[n].token # NoId

\* a processPayment request is answered by the step that receives it: it was
\* rejected before the handler wrote its own Payment record
PaymentRejectedEarly(p) ==
  /\ call[p].pc = "idle"
  /\ call'[p].op = "pay"
  /\ call'[p].pc = "done"
  /\ call'[p].code \in {"UNAUTHORIZED", "VALIDATION_ERROR"}

\* C32: a processPayment request rejected before its own Payment record is
\* written (authentication, user_id mismatch, required fields, neither
\* token_id nor session_id) changes no Payment record, whether or not the
\* request carries the payment_id of an existing record.
C32_EarlyRejectionWritesNothing ==
  [][\A p \in Procs : PaymentRejectedEarly(p) => payments' = payments]_vars

\* the record a request's payment_id names is one the request must not touch:
\* it is in a final status, or it belongs to another user
NamesProtectedPayment(user) ==
  \/ payments[RequestPaymentId].status \in {"completed", "failed", "refunded"}
  \/ /\ payments[RequestPaymentId].status # "none"
     /\ payments[RequestPaymentId].user # user

\* C33: processPayment does not overwrite an existing Payment record: when the
\* request's payment_id names a record that is completed, failed or refunded,
\* or that belongs to another user, no step of the call changes that record.
C33_ExistingPaymentKept ==
  [][\A p \in Procs :
       /\ call'[p].op = "pay"
       /\ call'[p].valid
       /\ call'[p].pidGiven
       /\ NamesProtectedPayment(call'[p].user)
       => payments'[RequestPaymentId] = payments[RequestPaymentId]]_vars

\* the cards stored by completions of session sid
CardsOfSession(sid) == {n \in DOMAIN cards : cards[n].token = SessionToken(sid)}

\* C34: over any number of completeTokenization calls for one session_id,
\* overlapping calls included, at most one card is created for the session.
C34_OneCardPerSession ==
  \A sid \in 1..MaxSessions : Cardinality(CardsOfSession(sid)) <= 1

\* a completeTokenization request naming a processor other than the one
\* stored with the session it found has been taken up
OtherProcessorNamed(p) ==
  /\ call[p].pc = "idle"
  /\ call'[p].op = "complete"
  /\ call'[p].doc # NoId
  /\ call'[p].prov # sessions[call'[p].doc].provider

\* C35: a completeTokenization request whose provider differs from the
\* provider stored in the session does not run the named processor's adapter:
\* the adapter neither raises nor succeeds, no card is created and the session
\* is not marked completed.
C35_SessionProcessorCompletes ==
  [][\A p \in Procs :
       OtherProcessorNamed(p)
       => /\ call'[p].raised = "-"
          /\ call'[p].pc = "done"
          /\ call'[p].code # "OK"
          /\ cards' = cards
          /\ sessions' = sessions]_vars

\* C36: whenever adapter.processPayment runs, the card it is given belongs to
\* the user of the request, whether the card was resolved from a token_id
\* (card id or vendor token) or from a session_id.
C36_ChargesOwnCardOnly ==
  [][\A p \in Procs :
       VendorCharged(p)
       => /\ call'[p].card \in DOMAIN cards
          /\ cards[call'[p].card].user = call'[p].user]_vars

\* a charge has been dispatched on the requesting user's own card while the
\* other user has no card
C36_Witness ==
  \E p \in Procs :
    /\ call[p].op = "pay"
    /\ call[p].pc = "done"
    /\ call[p].code = "OK"
    /\ call[p].card \in DOMAIN cards
    /\ cards[call[p].card].user = call[p].user
    /\ \E u \in Users : u # call[p].user /\ \A n \in DOMAIN cards : cards[n].user # u

\* a tokenization (direct or completion) has been answered with an error
TokenizationFailed(p) ==
  /\ call[p].pc = "done"
  /\ call[p].op \in {"tokenize", "complete"}
  /\ call[p].code # "OK"

\* C37: a tokenizeDirect or completeTokenization that returned an error has
\* persisted no card: the card the call wrote, if it wrote one, is not in the
\* store, also when the batched default-unset failed after the new-card write.
C37_FailedTokenizationStoresNoCard ==
  \A p \in Procs : TokenizationFailed(p) => call[p].card \notin DOMAIN cards

\* C38: a processor whose supplied config has enabled = false is never
\* constructed, never returned by get(name), and reported available neither
\* by isAvailable(name) nor by provider discovery; this holds for all three
\* processors.
C38_DisabledStaysOff ==
  \A name \in env.disabled :
    /\ providers[name] = NoAdapter
    /\ (reply.op = "get" /\ reply.name = name) => reply.code # "OK"
    /\ (reply.op = "available" /\ reply.name = name) => ~reply.available
    /\ reply.op = "discover" => name \notin reply.listed

\* the step in which a refundPayment request is answered
RefundStep(p) ==
  /\ call[p].pc = "idle"
  /\ call'[p].op = "refund"
  /\ call'[p].pc = "done"

\* C39: after refundPayment answers success the stored Payment record has
\* status refunded; after it answers an error the Payment records are
\* unchanged.
C39_RefundRecorded ==
  [][\A p \in Procs :
       RefundStep(p)
       => IF call'[p].code = "OK"
          THEN payments'[call'[p].pid].status = "refunded"
          ELSE payments' = payments]_vars

\* a step of a tokenization (direct, or the completion of a redirect session)
\* whose set_as_default is absent or false
PlainTokenizationStep(p) ==
  /\ call'[p] # call[p]
  /\ call'[p].op \in {"tokenize", "complete"}
  /\ ~call'[p].sad

\* C40: a tokenization with set_as_default absent or false stores its card
\* with is_default = false, changes is_default of no stored card, and never
\* queries or rewrites the user's other cards.
C40_PlainTokenizationKeepsDefaults ==
  [][\A p \in Procs :
       PlainTokenizationStep(p)
       => /\ \A n \in DOMAIN cards :
               /\ n \in DOMAIN cards'
               /\ cards'[n].is_default = cards[n].is_default
          /\ \A n \in DOMAIN cards' \ DOMAIN cards : ~cards'[n].is_default
          /\ call'[p].pc \notin {"query", "commit"}]_vars

\* a user who has a default card has stored a second card without
\* set_as_default: the first is still the default, the second is not
C40_Witness ==
  \E p \in Procs :
    /\ call[p].pc = "done"
    /\ call[p].op \in {"tokenize", "complete"}
    /\ call[p].code = "OK"
    /\ ~call[p].sad
    /\ call[p].card = 2
    /\ cards[1].user = call[p].user
    /\ cards[1].is_default
    /\ ~cards[2].is_default

====
